---- MODULE Spec2Model ----
(***************************************************************************)
(* State-machine model of the notebook MTL_Tutorial.ipynb, run top to      *)
(* bottom ("Run All"): one action per code cell, the kernel's variables as *)
(* the state.  A cell that raises stops the run; the assignments it made   *)
(* before the raising statement are kept.                                  *)
(***************************************************************************)
EXTENDS Integers, Sequences, FiniteSets, TLC

VARIABLES
    file,               \* contents of data/Sentences_66Agree.txt as read_finphrase returns it
    random_state,       \* the permutation that sample(frac=1, random_state=42) applies
    pc,                 \* position (1-based) of the next code cell to run
    error,              \* "none", or the name of the cell that raised
    completed,          \* names of the cells that ran to their end
    data,               \* DataFrame: sequence of rows [idx, sentence, label]
    x_train, y_train,   \* Series: sequences of [idx, val]
    x_val, y_val,
    tfvect,             \* [vocabulary |-> n]: size of the fitted tf-idf vocabulary
    x_train_tf,         \* shape [rows, cols] of the tf-idf training matrix
    x_val_tf,           \* shape [rows, cols] of the tf-idf validation matrix
    selector,           \* [k |-> ...] of SelectKBest
    inputs,             \* width of keras.Input of the MLP
    y_train_vectorized, \* np.array(y_train): labels, index dropped
    y_val_vectorized,
    train_bert,         \* batched dataset: sequence of batches of [sentence, label]
    val_bert,
    out                 \* per cell: the progress lines fit printed, one per epoch

vars == <<file, random_state, pc, error, completed, data, x_train, y_train,
          x_val, y_val, tfvect, x_train_tf, x_val_tf, selector, inputs,
          y_train_vectorized, y_val_vectorized, train_bert, val_bert, out>>

----------------------------------------------------------------------------
(* Bounds of the model *)

\* number of leading rows of the file whose labels are chosen freely
MaxHead == 1
\* how many rows beyond the split index the tail may supply
MaxExtra == 1

----------------------------------------------------------------------------
(* Program constants *)

train_split_idx == 1300
TOP_K == 20000
BATCH_SIZE == 16
MlpBatchSize == 32
MlpEpochs == 10
LstmBatchSize == 32
LstmEpochs == 15
BertEpochs == 2
NumUnits == 2
PreviewRows == 6
max_df_percent == 33
min_df == 1
Negative == 0
Positive == 1
Neutral == 2
NaN == 0 - 1

Min(a, b) == IF a <= b THEN a ELSE b

RECURSIVE SumSeq(_)
SumSeq(s) == IF s = <<>> THEN 0 ELSE Head(s) + SumSeq(Tail(s))

Range(s) == {s[i] : i \in 1..Len(s)}

Cells ==
    <<"setup", "preview", "split", "tfidf_mlp", "bilstm", "bert_tokenize",
      "bert_fit", "signal3", "signal4", "signal5", "augment_ner",
      "augment_gpt3", "ensembling", "last">>

EmptyCells ==
    {"signal3", "signal4", "signal5", "augment_ner", "augment_gpt3",
     "ensembling", "last"}

CellNames == Range(Cells)

----------------------------------------------------------------------------
(* The input file *)

Labels == {Negative, Positive, Neutral, NaN}

\* the first MaxHead rows of the file carry any labels
Heads == [1..MaxHead -> Labels]

\* the label of the p-th row after the head: negative, positive, neutral, and
\* so on
TailLabel(p) ==
    IF p % 3 = 0 THEN Neutral ELSE (p % 3) - 1

\* the number of rows after the head that hold nValid negative or positive ones
TailLen(nValid) == nValid + (nValid \div 2)

\* numbers of negative and positive rows of the tail: none, just enough for
\* the preview, and around the split index
ValidCounts ==
    {0, PreviewRows}
        \cup ((train_split_idx - MaxHead) .. (train_split_idx + MaxExtra))

Files ==
    [head : Heads, nValid : ValidCounts]

\* read_finphrase: the list of (sentence, label) pairs of the file, the
\* sentence standing for itself as the number of its line
read_finphrase(f) ==
    LET h == Len(f.head)
        n == h + TailLen(f.nValid)
    IN  [r \in 1..n |->
            [sentence |-> r,
             label |-> IF r <= h THEN f.head[r] ELSE TailLabel(r - h)]]

----------------------------------------------------------------------------
(* pandas *)

\* pd.DataFrame(rows, columns=[...]): a RangeIndex 0..n-1
DataFrame(rows) ==
    [i \in 1..Len(rows) |->
        [idx |-> i - 1, sentence |-> rows[i].sentence, label |-> rows[i].label]]

dropna(df) == SelectSeq(df, LAMBDA r : r.label # NaN)

Shuffles == {"identity", "reverse"}

\* df.sample(frac=1, random_state=...): all rows, permuted
sample_all(df, perm) ==
    LET n == Len(df)
    IN  [i \in 1..n |->
            IF perm = "reverse" THEN df[n + 1 - i] ELSE df[i]]

reset_index(df) ==
    [i \in 1..Len(df) |-> [df[i] EXCEPT !.idx = i - 1]]

\* a filter that keeps every row
FilterNothing(df) == df

\* df[df.label != 2]: the rows kept keep their index labels
FilterNeutral(df) == SelectSeq(df, LAMBDA r : r.label # Neutral)

\* a slice that reads lo and hi as index labels instead of row positions
SliceByLabel(df, lo, hi) ==
    SelectSeq(df, LAMBDA r : r.idx >= lo /\ r.idx < hi)

\* df[lo:hi] with integers: by row position, clipped to the frame
Slice(df, lo, hi) ==
    SubSeq(df, Min(lo, Len(df)) + 1, Min(hi, Len(df)))

\* df[col]: a Series carrying the frame's index
Column(df, col) ==
    [i \in 1..Len(df) |-> [idx |-> df[i].idx, val |-> df[i][col]]]

Values(series) == [i \in 1..Len(series) |-> series[i].val]

----------------------------------------------------------------------------
(* Run All *)

Runnable(cell) ==
    /\ error = "none"
    /\ pc <= Len(Cells)
    /\ Cells[pc] = cell

Finish(cell) ==
    /\ pc' = pc + 1
    /\ completed' = completed \cup {cell}
    /\ error' = "none"

Raise(cell) ==
    /\ pc' = pc
    /\ completed' = completed
    /\ error' = cell

Init ==
    /\ file \in Files
    /\ random_state \in Shuffles
    /\ pc = 1
    /\ error = "none"
    /\ completed = {}
    /\ data = <<>>
    /\ x_train = <<>>
    /\ y_train = <<>>
    /\ x_val = <<>>
    /\ y_val = <<>>
    /\ tfvect = [vocabulary |-> 0]
    /\ x_train_tf = [rows |-> 0, cols |-> 0]
    /\ x_val_tf = [rows |-> 0, cols |-> 0]
    /\ selector = [k |-> 0]
    /\ inputs = 0
    /\ y_train_vectorized = <<>>
    /\ y_val_vectorized = <<>>
    /\ train_bert = <<>>
    /\ val_bert = <<>>
    /\ out = [c \in CellNames |-> <<>>]

\* cell 1: load, drop rows with a missing value, shuffle, renumber
Setup ==
    /\ Runnable("setup")
    /\ data' = reset_index(sample_all(dropna(DataFrame(read_finphrase(file))),
                                      random_state))
    /\ Finish("setup")
    /\ UNCHANGED <<file, random_state, x_train, y_train, x_val, y_val,
                   tfvect, x_train_tf, x_val_tf, selector, inputs, y_train_vectorized,
                   y_val_vectorized, train_bert, val_bert, out>>

\* cell 2: data.sample(6, ...) raises when the frame has fewer than 6 rows
Preview ==
    /\ Runnable("preview")
    /\ IF Len(data) < PreviewRows
       THEN Raise("preview")
       ELSE Finish("preview")
    /\ UNCHANGED <<file, random_state, data, x_train, y_train, x_val, y_val,
                   tfvect, x_train_tf, x_val_tf, selector, inputs, y_train_vectorized,
                   y_val_vectorized, train_bert, val_bert, out>>

TrainPart(df) == Slice(df, 0, train_split_idx)

ValPart(df) == Slice(df, train_split_idx, Len(df))

\* cell 3: keep the negative and positive rows, split at train_split_idx
SplitCell ==
    /\ Runnable("split")
    /\ LET filtered == FilterNeutral(data)
       IN  /\ data' = filtered
           /\ x_train' = Column(TrainPart(filtered), "sentence")
           /\ y_train' = Column(TrainPart(filtered), "label")
           /\ x_val' = Column(ValPart(filtered), "sentence")
           /\ y_val' = Column(ValPart(filtered), "label")
    /\ Finish("split")
    /\ UNCHANGED <<file, random_state, tfvect, x_train_tf, x_val_tf, selector,
                   inputs, y_train_vectorized, y_val_vectorized, train_bert, val_bert,
                   out>>

----------------------------------------------------------------------------
(* Keras *)

\* ceil(n / batch_size)
Steps(n, batch_size) == (n + batch_size - 1) \div batch_size

\* batching that drops the remainder: full batches only
BatchesDropRemainder(n, batch_size) ==
    [i \in 1..(n \div batch_size) |-> batch_size]

\* sizes of the batches an epoch over n samples is cut into
Batches(n, batch_size) ==
    [i \in 1..Steps(n, batch_size) |-> Min(batch_size, n - (i - 1) * batch_size)]

\* tf.data.Dataset.batch(batch_size): consecutive elements, the last batch
\* keeping the remainder
Batch(ds, batch_size) ==
    [i \in 1..Steps(Len(ds), batch_size) |->
        SubSeq(ds, (i - 1) * batch_size + 1, Min(i * batch_size, Len(ds)))]

\* the class indices a Dense(2)/2-label softmax output accepts
ValidClasses == 0 .. (NumUnits - 1)

\* sparse categorical cross-entropy rejects a label that is no class index;
\* fit and its validation pass reject an empty input
FitRaises(labels, nTrain, nVal) ==
    \/ nTrain = 0
    \/ nVal = 0
    \/ ~(labels \subseteq ValidClasses)

\* the progress lines of a fit without validation data
FitLinesNoValidation(batches, epochs) ==
    [e \in 1..epochs |->
        [epoch |-> e, steps |-> Len(batches), batches |-> batches,
         val_accuracy |-> FALSE]]

\* the progress lines of model.fit(..., validation_data=...): one per epoch,
\* "<steps>/<steps> ... val_accuracy: ..."
FitLines(batches, epochs) ==
    [e \in 1..epochs |->
        [epoch |-> e, steps |-> Len(batches), batches |-> batches,
         val_accuracy |-> TRUE]]

----------------------------------------------------------------------------
(* scikit-learn *)

\* TfidfVectorizer.fit_transform raises on an empty corpus and when
\* max_df * n_docs < min_df
VectorizerRaises(nDocs) ==
    \/ nDocs = 0
    \/ max_df_percent * nDocs < 100 * min_df

\* sizes of the vocabulary the vectorizer may fit; 0: no terms remain
NFeatures == {0, TOP_K - 1, TOP_K, TOP_K + 1}

\* k fixed at TOP_K whatever the number of features
SelectKFixed(nFeatures) == TOP_K

\* k of SelectKBest(f_classif, k=min(TOP_K, x_train_tf.shape[1]))
SelectK(nFeatures) == Min(TOP_K, nFeatures)

\* selector.transform(X): the k selected columns of X
SelectColumns(shape, k) == [rows |-> shape.rows, cols |-> Min(k, shape.cols)]

\* the width of keras.Input(shape = (x_val_tf.shape[1],))
InputWidth(train_shape, val_shape) == val_shape.cols

\* cell 4: tf-idf features, top-k selection, MLP
TfidfMlp ==
    /\ Runnable("tfidf_mlp")
    /\ \E nf \in NFeatures :
        LET docs == Len(x_train)
            fitted == [rows |-> docs, cols |-> nf]
            valtf == [rows |-> Len(x_val), cols |-> nf]
            k == SelectK(nf)
            train_sel == SelectColumns(fitted, k)
            val_sel == SelectColumns(valtf, k)
            width == InputWidth(train_sel, val_sel)
            labels == Range(Values(y_train)) \cup Range(Values(y_val))
        IN  IF VectorizerRaises(docs) \/ nf = 0
            THEN \* tfvect.fit_transform(x_train) raises
                 /\ Raise("tfidf_mlp")
                 /\ UNCHANGED <<tfvect, x_train_tf, x_val_tf, selector, inputs, out>>
            ELSE
              \/ \* tfvect.transform(x_val) raises on no samples (the tf-idf
                 \* transform validates its input in some library versions)
                 /\ valtf.rows = 0
                 /\ Raise("tfidf_mlp")
                 /\ tfvect' = [vocabulary |-> nf]
                 /\ x_train_tf' = fitted
                 /\ UNCHANGED <<x_val_tf, selector, inputs, out>>
              \/ IF k > nf
                 THEN \* selector.fit raises: k exceeds the number of features
                      /\ Raise("tfidf_mlp")
                      /\ tfvect' = [vocabulary |-> nf]
                      /\ x_train_tf' = fitted
                      /\ x_val_tf' = valtf
                      /\ selector' = [k |-> k]
                      /\ UNCHANGED <<inputs, out>>
                 ELSE IF valtf.rows = 0
                 THEN \* selector.transform(x_val_tf) raises: no samples
                      /\ Raise("tfidf_mlp")
                      /\ tfvect' = [vocabulary |-> nf]
                      /\ x_train_tf' = train_sel
                      /\ x_val_tf' = valtf
                      /\ selector' = [k |-> k]
                      /\ UNCHANGED <<inputs, out>>
                 ELSE IF width # train_sel.cols \/ FitRaises(labels, docs, valtf.rows)
                 THEN \* model.fit raises
                      /\ Raise("tfidf_mlp")
                      /\ tfvect' = [vocabulary |-> nf]
                      /\ x_train_tf' = train_sel
                      /\ x_val_tf' = val_sel
                      /\ selector' = [k |-> k]
                      /\ inputs' = width
                      /\ UNCHANGED out
                 ELSE /\ Finish("tfidf_mlp")
                      /\ tfvect' = [vocabulary |-> nf]
                      /\ x_train_tf' = train_sel
                      /\ x_val_tf' = val_sel
                      /\ selector' = [k |-> k]
                      /\ inputs' = width
                      /\ out' = [out EXCEPT !["tfidf_mlp"] =
                                   FitLines(Batches(train_sel.rows, MlpBatchSize),
                                            MlpEpochs)]
    /\ UNCHANGED <<file, random_state, data, x_train, y_train, x_val, y_val,
                   y_train_vectorized, y_val_vectorized, train_bert, val_bert>>

\* vectorizer(np.array([[s] for s in x])): one row of token ids per sentence
create_vectorizer_and_embeddings(x) == [rows |-> Len(x)]

\* cell 5: GloVe embeddings, two bidirectional LSTM layers
BiLstm ==
    /\ Runnable("bilstm")
    /\ LET x_train_vectorized == create_vectorizer_and_embeddings(x_train)
           x_val_vectorized == create_vectorizer_and_embeddings(x_val)
           yt == Values(y_train)
           yv == Values(y_val)
       IN  /\ y_train_vectorized' = yt
           /\ y_val_vectorized' = yv
           /\ IF FitRaises(Range(yt) \cup Range(yv), x_train_vectorized.rows,
                           x_val_vectorized.rows)
              THEN /\ Raise("bilstm")
                   /\ UNCHANGED out
              ELSE /\ Finish("bilstm")
                   /\ out' = [out EXCEPT !["bilstm"] =
                                FitLines(Batches(x_train_vectorized.rows, LstmBatchSize),
                                         LstmEpochs)]
    /\ UNCHANGED <<file, random_state, data, x_train, y_train, x_val, y_val,
                   tfvect, x_train_tf, x_val_tf, selector, inputs, train_bert, val_bert>>

\* convert_data(tokenizer, x, y): a dataset with one (encoded sentence, label)
\* example per row
convert_data(x, y) ==
    [i \in 1..Len(x) |-> [sentence |-> x[i].val, label |-> y[i].val]]

\* cell 6: tokenize for BERT and batch
BertTokenize ==
    /\ Runnable("bert_tokenize")
    /\ train_bert' = Batch(convert_data(x_train, y_train), BATCH_SIZE)
    /\ val_bert' = Batch(convert_data(x_val, y_val), BATCH_SIZE)
    /\ Finish("bert_tokenize")
    /\ UNCHANGED <<file, random_state, data, x_train, y_train, x_val, y_val,
                   tfvect, x_train_tf, x_val_tf, selector, inputs, y_train_vectorized,
                   y_val_vectorized, out>>

BatchLabels(ds) == UNION {{ds[b][i].label : i \in 1..Len(ds[b])} : b \in 1..Len(ds)}

BatchSizes(ds) == [b \in 1..Len(ds) |-> Len(ds[b])]

\* cell 7: fine-tune BERT on the batched datasets
BertFit ==
    /\ Runnable("bert_fit")
    /\ IF FitRaises(BatchLabels(train_bert) \cup BatchLabels(val_bert),
                    Len(train_bert), Len(val_bert))
       THEN /\ Raise("bert_fit")
            /\ UNCHANGED out
       ELSE /\ Finish("bert_fit")
            /\ out' = [out EXCEPT !["bert_fit"] =
                         FitLines(BatchSizes(train_bert), BertEpochs)]
    /\ UNCHANGED <<file, random_state, data, x_train, y_train, x_val, y_val,
                   tfvect, x_train_tf, x_val_tf, selector, inputs, y_train_vectorized,
                   y_val_vectorized, train_bert, val_bert>>

\* the code cells with no source: running one changes nothing
EmptyCell ==
    /\ pc <= Len(Cells)
    /\ Cells[pc] \in EmptyCells
    /\ Runnable(Cells[pc])
    /\ Finish(Cells[pc])
    /\ UNCHANGED <<file, random_state, data, x_train, y_train, x_val, y_val,
                   tfvect, x_train_tf, x_val_tf, selector, inputs, y_train_vectorized,
                   y_val_vectorized, train_bert, val_bert, out>>

Next ==
    \/ Setup
    \/ Preview
    \/ SplitCell
    \/ TfidfMlp
    \/ BiLstm
    \/ BertTokenize
    \/ BertFit
    \/ EmptyCell

Spec == Init /\ [][Next]_vars

----------------------------------------------------------------------------
(* Properties *)

FitCells == {"tfidf_mlp", "bilstm", "bert_fit"}

\* the cell printed a validation accuracy
ReportsValAccuracy(c) ==
    /\ Len(out[c]) > 0
    /\ \A e \in 1..Len(out[c]) : out[c][e].val_accuracy

RunFinished == error = "none" /\ pc > Len(Cells)

FileRows == read_finphrase(file)

\* C1: once the split cell has run, every label of y_train and y_val, and of
\* the label arrays derived from them for the models, is 0 (negative) or 1
\* (positive), never 2 (neutral), hence a class index of a 2-unit output.
C1_BinaryLabels ==
    "split" \in completed =>
        LET binary(label) ==
                /\ label \in {Negative, Positive}
                /\ label # Neutral
                /\ label \in ValidClasses
        IN  /\ \A i \in 1..Len(y_train) : binary(y_train[i].val)
            /\ \A i \in 1..Len(y_val) : binary(y_val[i].val)
            /\ \A i \in 1..Len(y_train_vectorized) : binary(y_train_vectorized[i])
            /\ \A i \in 1..Len(y_val_vectorized) : binary(y_val_vectorized[i])

\* the file held neutral rows and rows with a missing label, and all three
\* models were fitted on the split
C1_Witness ==
    /\ "bert_fit" \in completed
    /\ \E r \in 1..Len(FileRows) : FileRows[r].label = Neutral
    /\ \E r \in 1..Len(FileRows) : FileRows[r].label = NaN
    /\ Range(Values(y_train)) = {Negative, Positive}

\* C2 (as stated): every code cell that has run ended with a validation
\* accuracy printed.
C2_EveryCellReports ==
    \A c \in completed : ReportsValAccuracy(c)

\* C2 (amended): a code cell that has run to its end printed a validation
\* accuracy (one per epoch) exactly when it is one of the three fitting cells;
\* the setup, preview, split, tokenization and empty cells print none.
C2_OnlyFitCellsReport ==
    \A c \in CellNames :
        /\ c \in completed => (ReportsValAccuracy(c) <=> c \in FitCells)
        /\ c \notin completed => out[c] = <<>>

\* the whole notebook has run: the three fitting cells reported, the others
\* did not
C2_Witness ==
    /\ RunFinished
    /\ completed = CellNames
    /\ \A c \in FitCells : ReportsValAccuracy(c)
    /\ out["bert_tokenize"] = <<>>

Signals ==
    {"tf-idf MLP", "GloVe BiLSTM", "BERT fine-tuning", "external features",
     "multitask learning", "dataset slicing", "data augmentation", "ensembling"}

\* the code cells under the section of each signal
SignalCells(s) ==
    CASE s = "tf-idf MLP" -> {"tfidf_mlp"}
      [] s = "GloVe BiLSTM" -> {"bilstm"}
      [] s = "BERT fine-tuning" -> {"bert_fit"}
      [] s = "external features" -> {"signal3"}
      [] s = "multitask learning" -> {"signal4"}
      [] s = "dataset slicing" -> {"signal5"}
      [] s = "data augmentation" -> {"augment_ner", "augment_gpt3"}
      [] s = "ensembling" -> {"ensembling"}

\* C3: when the notebook has run top to bottom, each of the eight signals has
\* had a model fitted and its validation accuracy reported.
C3_AllSignalsDemonstrated ==
    RunFinished =>
        \A s \in Signals : \E c \in SignalCells(s) : ReportsValAccuracy(c)

\* C5: the split is by row position: with n filtered rows, train is the first
\* min(1300, n) rows and validation the remaining max(0, n - 1300); the parts
\* share no row, together hold every filtered row once, and the i-th sentence
\* and i-th label of a part come from the same row of the file.
C5_SplitByPosition ==
    "split" \in completed =>
        LET n == Len(data)
            nt == IF n < train_split_idx THEN n ELSE train_split_idx
            nv == IF n > train_split_idx THEN n - train_split_idx ELSE 0
            idxs(series) == {series[i].idx : i \in 1..Len(series)}
        IN  /\ Len(x_train) = nt /\ Len(y_train) = nt
            /\ Len(x_val) = nv /\ Len(y_val) = nv
            /\ \A i \in 1..nt :
                /\ x_train[i].idx = data[i].idx
                /\ x_train[i].val = data[i].sentence
                /\ y_train[i].idx = data[i].idx
                /\ y_train[i].val = data[i].label
            /\ \A i \in 1..nv :
                /\ x_val[i].idx = data[nt + i].idx
                /\ x_val[i].val = data[nt + i].sentence
                /\ y_val[i].idx = data[nt + i].idx
                /\ y_val[i].val = data[nt + i].label
            /\ idxs(x_train) \cap idxs(x_val) = {}
            /\ Cardinality(idxs(x_train) \cup idxs(x_val)) = n

\* more than 1300 filtered rows, and a neutral row removed before the split
\* position, so that index labels and row positions differ at the boundary
C5_Witness ==
    /\ "split" \in completed
    /\ Len(data) > train_split_idx
    /\ data[train_split_idx].idx # train_split_idx - 1
    /\ Len(x_train) = train_split_idx
    /\ Len(x_val) > 0

\* C6: k = min(TOP_K, number of fitted tf-idf features) with TOP_K = 20000, so
\* k never exceeds the number of features; after selection both matrices have
\* k columns and the MLP input width equals the training matrix's columns.
C6_TopKFeatures ==
    /\ TOP_K = 20000
    /\ selector.k # 0 =>
        /\ selector.k = IF TOP_K <= tfvect.vocabulary THEN TOP_K ELSE tfvect.vocabulary
        /\ selector.k <= tfvect.vocabulary
    /\ "tfidf_mlp" \in completed =>
        /\ x_train_tf.cols = selector.k
        /\ x_val_tf.cols = selector.k
        /\ inputs = x_val_tf.cols
        /\ inputs = x_train_tf.cols
        /\ x_train_tf.rows = Len(x_train)
        /\ x_val_tf.rows = Len(x_val)

\* the vocabulary is larger than TOP_K and the selection cut it to TOP_K
C6_Witness ==
    /\ "tfidf_mlp" \in completed
    /\ tfvect.vocabulary > TOP_K
    /\ selector.k = TOP_K
    /\ x_train_tf.cols = TOP_K

\* C7: with at least 1300 filtered rows the training set has exactly 1300
\* rows and every epoch of every fit passes over all of them: 41 steps for the
\* tf-idf MLP and the BiLSTM (batches of 32), 82 steps for BERT (batches of
\* 16), only the last batch of an epoch smaller than the batch size.
C7_StepsPerEpoch ==
    ("split" \in completed /\ Len(data) >= train_split_idx) =>
        LET whole(c, steps, size) ==
                \A e \in 1..Len(out[c]) :
                    LET line == out[c][e]
                    IN  /\ line.steps = steps
                        /\ Len(line.batches) = steps
                        /\ SumSeq(line.batches) = 1300
                        /\ \A b \in 1..(steps - 1) : line.batches[b] = size
                        /\ line.batches[steps] > 0
                        /\ line.batches[steps] <= size
        IN  /\ Len(x_train) = 1300
            /\ Len(y_train) = 1300
            /\ \A c \in FitCells : c \in completed => Len(out[c]) > 0
            /\ whole("tfidf_mlp", 41, 32)
            /\ whole("bilstm", 41, 32)
            /\ whole("bert_fit", 82, 16)

\* all three fits ran: 41, 41 and 82 steps per epoch, the last batches short
C7_Witness ==
    /\ FitCells \subseteq completed
    /\ out["tfidf_mlp"][MlpEpochs].steps = 41
    /\ out["bilstm"][LstmEpochs].steps = 41
    /\ out["bert_fit"][BertEpochs].steps = 82
    /\ out["tfidf_mlp"][1].batches[41] = 20
    /\ out["bert_fit"][1].batches[82] = 4

====
